---- MODULE Spec2Model ----
(***************************************************************************)
(* A model of validate_grok_json.py: a one-shot command line tool that     *)
(* loads a JSON file, checks the root is an object, guesses which of two   *)
(* flat schemas ("global" or "thread") applies from the keys present,      *)
(* validates the required keys of that schema and reports the result.      *)
(***************************************************************************)
EXTENDS FiniteSets, Integers, Sequences, TLC

VARIABLES pc, argv, path, obj, mode, errors, stdout, stderr, exit_code, ran

vars == <<pc, argv, path, obj, mode, errors, stdout, stderr, exit_code, ran>>

(***************************************************************************)
(* Bounds of the model.                                                    *)
(***************************************************************************)
\* the largest number of command line arguments after the script name
MaxArgs == 2
\* the largest number of members put, replaced or removed in a base document
MaxEdits == 1

(***************************************************************************)
(* The schema descriptors.                                                 *)
(***************************************************************************)
GLOBAL_REQUIRED_KEYS ==
    << "context_you_should_have_used",
       "thought_process_failures",
       "failure_patterns",
       "grok_strengths_and_limitations",
       "multi_llm_roles",
       "power_user_best_practices",
       "team_of_models_architecture",
       "reasoning_strategy_pack" >>

THREAD_REQUIRED_KEYS ==
    << "thread_name",
       "primary_goal",
       "niche_or_topic",
       "tasks_for_grok",
       "hard_constraints",
       "output_requirements",
       "priority_rules" >>

\* the literal lists validate_thread iterates over
ThreadStringFields == << "thread_name", "primary_goal", "niche_or_topic" >>

ThreadListFields ==
    << "tasks_for_grok", "hard_constraints", "output_requirements",
       "priority_rules" >>

Range(s) == {s[i] : i \in 1..Len(s)}

(***************************************************************************)
(* JSON texts and the Python values json.load makes of them.               *)
(***************************************************************************)
EmptyMap == [k \in {} |-> 0]

\* a JSON value: its kind, the kinds of its elements (arrays), its members
\* (objects)
JsonValue(kind, elems, members) ==
    [kind |-> kind, elems |-> elems, members |-> members]

JsonScalarKinds == {"null", "true", "false", "integer", "real", "string"}

ElemSeqs == {<<>>, <<"string">>, <<"integer", "null">>}

JsonArrays == {JsonValue("array", e, EmptyMap) : e \in ElemSeqs}

JsonScalars == {JsonValue(k, <<>>, EmptyMap) : k \in JsonScalarKinds}

\* the values a member of the root object takes: a scalar, an array, or {}
MemberValues ==
    JsonScalars \cup JsonArrays \cup {JsonValue("object", <<>>, EmptyMap)}

\* a member name that belongs to neither schema
OtherKeys == {"notes"}

Keys ==
    Range(GLOBAL_REQUIRED_KEYS) \cup Range(THREAD_REQUIRED_KEYS) \cup OtherKeys

Put(d, k, v) == [x \in (DOMAIN d) \cup {k} |-> IF x = k THEN v ELSE d[x]]

Del(d, k) == [x \in (DOMAIN d) \ {k} |-> d[x]]

EmptyArray == JsonValue("array", <<>>, EmptyMap)

StringArray == JsonValue("array", <<"string">>, EmptyMap)

AString == JsonValue("string", <<>>, EmptyMap)

\* the member maps the documents of the model are edited from
EmptyDoc == EmptyMap

FullGlobalDoc == [k \in Range(GLOBAL_REQUIRED_KEYS) |-> StringArray]

FullThreadDoc ==
    [k \in Range(THREAD_REQUIRED_KEYS) |->
        IF k \in Range(ThreadStringFields) THEN AString ELSE EmptyArray]

FullBothDoc ==
    [k \in Range(GLOBAL_REQUIRED_KEYS) \cup Range(THREAD_REQUIRED_KEYS) |->
        IF k \in Range(ThreadStringFields) THEN AString ELSE EmptyArray]

SwappedDoc ==
    [k \in Range(THREAD_REQUIRED_KEYS) |->
        IF k \in Range(ThreadStringFields) THEN EmptyArray ELSE AString]

\* a few keys of each schema, some of them of the wrong type
MixedDoc ==
    [k \in {"context_you_should_have_used", "failure_patterns",
            "thread_name", "tasks_for_grok"} |->
        IF k \in {"failure_patterns", "thread_name"}
            THEN JsonValue("integer", <<>>, EmptyMap)
            ELSE StringArray]

BaseDocs ==
    {EmptyDoc, FullGlobalDoc, FullThreadDoc, FullBothDoc, SwappedDoc, MixedDoc}

RECURSIVE DocsWithin(_)
DocsWithin(n) ==
    IF n = 0 THEN BaseDocs
    ELSE LET prev == DocsWithin(n - 1)
         IN  prev
             \cup {Put(d, k, v) : d \in prev, k \in Keys, v \in MemberValues}
             \cup {Del(d, k) : d \in prev, k \in Keys}

Docs == DocsWithin(MaxEdits)

\* the JSON texts whose root is an object
JsonObjects == {JsonValue("object", <<>>, d) : d \in Docs}

\* the JSON texts whose root is not an object
JsonNonObjects == JsonScalars \cup JsonArrays

\* type(v).__name__ of the Python value json.load makes of a JSON value
PyType(kind) ==
    CASE kind = "null" -> "NoneType"
      [] kind = "true" -> "bool"
      [] kind = "false" -> "bool"
      [] kind = "integer" -> "int"
      [] kind = "real" -> "float"
      [] kind = "string" -> "str"
      [] kind = "array" -> "list"
      [] kind = "object" -> "dict"

PyTypes == {"NoneType", "bool", "int", "float", "str", "list", "dict"}

\* json.load: the Python value of a JSON value
RECURSIVE Decode(_)
Decode(j) ==
    [type |-> PyType(j.kind),
     items |-> [i \in 1..Len(j.elems) |-> PyType(j.elems[i])],
     fields |-> [k \in DOMAIN j.members |-> Decode(j.members[k])]]

None == [type |-> "NoneType", items |-> <<>>, fields |-> EmptyMap]

\* "key in obj"
Has(o, key) == key \in DOMAIN o.fields

\* isinstance(v, T) for the values json.load produces
IsInstance(v, t) == v.type = t

(***************************************************************************)
(* The command line and the file system.                                   *)
(***************************************************************************)
ScriptName == "validate_grok_json.py"

Paths == {"pack.json"}

RECURSIVE ArgLists(_)
ArgLists(n) ==
    IF n = 0 THEN {<<>>}
    ELSE ArgLists(n - 1)
         \cup {Append(a, p) : a \in {b \in ArgLists(n - 1) : Len(b) = n - 1},
                              p \in Paths}

ArgvSet == {<<ScriptName>> \o a : a \in ArgLists(MaxArgs)}

\* what json.JSONDecodeError says of a malformed text
SyntaxErrors ==
    {"Expecting value: line 1 column 1 (char 0)",
     "Expecting property name enclosed in double quotes: line 1 column 8 (char 7)"}

\* the first line an uncaught exception leaves on standard error; the
\* interpreter then exits with status 1
TracebackLine == "Traceback (most recent call last):"

\* what path.exists() gives
ExistsOutcomes == {"true", "false", "raise"}

\* what opening and parsing the file gives: a parsed text, a syntax error,
\* or an exception load_json does not catch (a directory, bytes that are
\* not UTF-8)
LoadOutcomes ==
    {[res |-> "value", text |-> j, msg |-> ""] :
        j \in JsonObjects \cup JsonNonObjects}
    \cup {[res |-> "syntax", text |-> JsonValue("null", <<>>, EmptyMap),
           msg |-> m] : m \in SyntaxErrors}
    \cup {[res |-> "raise", text |-> JsonValue("null", <<>>, EmptyMap),
           msg |-> TracebackLine]}

(***************************************************************************)
(* The lines the program prints.                                           *)
(***************************************************************************)
UsageLine == "Usage: validate_grok_json.py path/to/file.json"

NotFoundLine(p) == "[ERROR] File not found: " \o p

SyntaxLine(p, e) == "[ERROR] " \o p \o ": invalid JSON syntax:\n  " \o e

ShapeLine(t) == "[ERROR] Root JSON must be an object, found " \o t

WarnBoth ==
    "[WARN] JSON contains keys from both GLOBAL and THREAD schemas; "
    \o "treating as GLOBAL for validation."

WarnUnknown == "[WARN] Could not determine schema type; assuming GLOBAL."

\* str.upper on the two mode tags
Upper(m) ==
    CASE m = "global" -> "GLOBAL"
      [] m = "thread" -> "THREAD"
      [] OTHER -> m

FailLine(p, m) == "[FAIL] " \o p \o " failed " \o Upper(m) \o " validation:"

Bullet(e) == "  - " \o e

OkLine(p, m) == "[OK] " \o p \o " is valid " \o Upper(m) \o " JSON."

(***************************************************************************)
(* Mode detection.                                                         *)
(***************************************************************************)
\* any(k in keys for k in required)
AnyKeyIn(required, keys) == \E i \in 1..Len(required) : required[i] \in keys

\* detect_mode with the ambiguous case resolved to "thread"
detect_mode_both_thread(o) ==
    LET keys == DOMAIN o.fields
        has_global == AnyKeyIn(GLOBAL_REQUIRED_KEYS, keys)
        has_thread == AnyKeyIn(THREAD_REQUIRED_KEYS, keys)
    IN  IF has_global /\ ~has_thread
            THEN [result |-> "global", warnings |-> <<>>]
        ELSE IF has_thread /\ ~has_global
            THEN [result |-> "thread", warnings |-> <<>>]
        ELSE IF has_global /\ has_thread
            THEN [result |-> "thread", warnings |-> <<WarnBoth>>]
        ELSE [result |-> "global", warnings |-> <<WarnUnknown>>]

\* detect_mode testing has_thread alone before anything else
detect_mode_thread_first(o) ==
    LET keys == DOMAIN o.fields
        has_global == AnyKeyIn(GLOBAL_REQUIRED_KEYS, keys)
        has_thread == AnyKeyIn(THREAD_REQUIRED_KEYS, keys)
    IN  IF has_thread
            THEN [result |-> "thread", warnings |-> <<>>]
        ELSE IF has_global
            THEN [result |-> "global", warnings |-> <<>>]
        ELSE [result |-> "global", warnings |-> <<WarnUnknown>>]

\* detect_mode: the mode returned and the lines printed to standard error
detect_mode(o) ==
    LET keys == DOMAIN o.fields
        has_global == AnyKeyIn(GLOBAL_REQUIRED_KEYS, keys)
        has_thread == AnyKeyIn(THREAD_REQUIRED_KEYS, keys)
    IN  IF has_global /\ ~has_thread
            THEN [result |-> "global", warnings |-> <<>>]
        ELSE IF has_thread /\ ~has_global
            THEN [result |-> "thread", warnings |-> <<>>]
        ELSE IF has_global /\ has_thread
            THEN [result |-> "global", warnings |-> <<WarnBoth>>]
        ELSE [result |-> "global", warnings |-> <<WarnUnknown>>]

(***************************************************************************)
(* The validators.                                                         *)
(***************************************************************************)
validate_list_field(o, key, errs) ==
    IF ~Has(o, key)
        THEN Append(errs, "Missing required key: " \o key)
    ELSE IF ~IsInstance(o.fields[key], "list")
        THEN Append(errs, "Key '" \o key \o "' must be a list, found "
                          \o o.fields[key].type)
    ELSE errs

\* validate_string_field that accepts an absent key
validate_string_field_skip_missing(o, key, errs) ==
    IF Has(o, key) /\ ~IsInstance(o.fields[key], "str")
        THEN Append(errs, "Key '" \o key \o "' must be a string, found "
                          \o o.fields[key].type)
    ELSE errs

validate_string_field(o, key, errs) ==
    IF ~Has(o, key)
        THEN Append(errs, "Missing required key: " \o key)
    ELSE IF ~IsInstance(o.fields[key], "str")
        THEN Append(errs, "Key '" \o key \o "' must be a string, found "
                          \o o.fields[key].type)
    ELSE errs

\* the loop body reporting the type of the document instead of the value's
GlobalStepDocumentType(o, key, errs) ==
    IF ~Has(o, key)
        THEN Append(errs, "Missing required key: " \o key)
    ELSE IF ~IsInstance(o.fields[key], "list")
        THEN Append(errs, "Key '" \o key \o "' must be a list (array), found "
                          \o o.type)
    ELSE errs

\* the body of validate_global's loop for one key
GlobalStep(o, key, errs) ==
    IF ~Has(o, key)
        THEN Append(errs, "Missing required key: " \o key)
    ELSE IF ~IsInstance(o.fields[key], "list")
        THEN Append(errs, "Key '" \o key \o "' must be a list (array), found "
                          \o o.fields[key].type)
    ELSE errs

\* the loop returning at the first error
RECURSIVE GlobalLoopStopAtFirst(_, _, _)
GlobalLoopStopAtFirst(o, i, errs) ==
    IF i > Len(GLOBAL_REQUIRED_KEYS) \/ errs # <<>> THEN errs
    ELSE GlobalLoopStopAtFirst(o, i + 1,
                               GlobalStep(o, GLOBAL_REQUIRED_KEYS[i], errs))

\* "for key in keys: step(obj, key, errors)", from the i-th key on
RECURSIVE GlobalLoop(_, _, _)
GlobalLoop(o, i, errs) ==
    IF i > Len(GLOBAL_REQUIRED_KEYS) THEN errs
    ELSE GlobalLoop(o, i + 1, GlobalStep(o, GLOBAL_REQUIRED_KEYS[i], errs))

validate_global(o) == GlobalLoop(o, 1, <<>>)

RECURSIVE StringLoop(_, _, _)
StringLoop(o, i, errs) ==
    IF i > Len(ThreadStringFields) THEN errs
    ELSE StringLoop(o, i + 1,
                    validate_string_field(o, ThreadStringFields[i], errs))

RECURSIVE ListLoop(_, _, _)
ListLoop(o, i, errs) ==
    IF i > Len(ThreadListFields) THEN errs
    ELSE ListLoop(o, i + 1, validate_list_field(o, ThreadListFields[i], errs))

\* validate_thread checking the list fields before the string fields
validate_thread_lists_first(o) == StringLoop(o, 1, ListLoop(o, 1, <<>>))

\* validate_thread checking all seven keys as list fields
RECURSIVE AllListLoop(_, _, _)
AllListLoop(o, i, errs) ==
    IF i > Len(THREAD_REQUIRED_KEYS) THEN errs
    ELSE AllListLoop(o, i + 1,
                     validate_list_field(o, THREAD_REQUIRED_KEYS[i], errs))

validate_thread_all_lists(o) == AllListLoop(o, 1, <<>>)

validate_thread(o) == ListLoop(o, 1, StringLoop(o, 1, <<>>))

(***************************************************************************)
(* main, one action per stage.                                             *)
(***************************************************************************)
Init ==
    /\ pc = "usage"
    /\ argv \in ArgvSet
    /\ path = ""
    /\ obj = None
    /\ mode = ""
    /\ errors = <<>>
    /\ stdout = <<>>
    /\ stderr = <<>>
    /\ exit_code = 0
    /\ ran = <<>>

\* sys.exit(1) after printing one line to standard error
Abort(line) ==
    /\ stderr' = Append(stderr, line)
    /\ exit_code' = 1
    /\ pc' = "done"

\* the arguments are counted
CheckUsage ==
    /\ pc = "usage"
    /\ ran' = Append(ran, "usage")
    /\ IF Len(argv) # 2
          THEN /\ Abort(UsageLine)
               /\ UNCHANGED path
          ELSE /\ path' = argv[2]
               /\ pc' = "exists"
               /\ UNCHANGED <<stderr, exit_code>>
    /\ UNCHANGED <<argv, obj, mode, errors, stdout>>

\* path.exists(): True, False (the stat fails with ENOENT, ENOTDIR, EBADF or
\* ELOOP), or any other OSError of the stat (EACCES, ENAMETOOLONG), which
\* exists() raises again and main does not catch
CheckExists ==
    /\ pc = "exists"
    /\ ran' = Append(ran, "exists")
    /\ \E exists \in ExistsOutcomes :
          CASE exists = "true" ->
                  /\ pc' = "load"
                  /\ UNCHANGED <<stderr, exit_code>>
            [] exists = "false" ->
                  Abort(NotFoundLine(path))
            [] exists = "raise" ->
                  Abort(TracebackLine)
    /\ UNCHANGED <<argv, path, obj, mode, errors, stdout>>

\* obj = load_json(path)
LoadJson ==
    /\ pc = "load"
    /\ ran' = Append(ran, "load")
    /\ \E out \in LoadOutcomes :
          CASE out.res = "value" ->
                  /\ obj' = Decode(out.text)
                  /\ pc' = "shape"
                  /\ UNCHANGED <<stderr, exit_code>>
            [] out.res = "syntax" ->
                  /\ Abort(SyntaxLine(path, out.msg))
                  /\ UNCHANGED obj
            [] out.res = "raise" ->
                  /\ Abort(out.msg)
                  /\ UNCHANGED obj
    /\ UNCHANGED <<argv, path, mode, errors, stdout>>

\* the shape check printing its diagnostic without leaving
CheckShapeNoExit ==
    /\ pc = "shape"
    /\ ran' = Append(ran, "shape")
    /\ stderr' = IF ~IsInstance(obj, "dict")
                    THEN Append(stderr, ShapeLine(obj.type))
                    ELSE stderr
    /\ pc' = "detect"
    /\ UNCHANGED <<argv, path, obj, mode, errors, stdout, exit_code>>

\* isinstance(obj, dict)
CheckShape ==
    /\ pc = "shape"
    /\ ran' = Append(ran, "shape")
    /\ IF ~IsInstance(obj, "dict")
          THEN Abort(ShapeLine(obj.type))
          ELSE /\ pc' = "detect"
               /\ UNCHANGED <<stderr, exit_code>>
    /\ UNCHANGED <<argv, path, obj, mode, errors, stdout>>

\* mode = detect_mode(obj)
DetectMode ==
    /\ pc = "detect"
    /\ ran' = Append(ran, "detect")
    /\ LET d == detect_mode(obj)
       IN  /\ mode' = d.result
           /\ stderr' = stderr \o d.warnings
    /\ pc' = "validate"
    /\ UNCHANGED <<argv, path, obj, errors, stdout, exit_code>>

\* errors = validate_global(obj) or validate_thread(obj)
Validate ==
    /\ pc = "validate"
    /\ ran' = Append(ran, "validate")
    /\ errors' = IF mode = "global" THEN validate_global(obj)
                                    ELSE validate_thread(obj)
    /\ pc' = "report"
    /\ UNCHANGED <<argv, path, obj, mode, stdout, stderr, exit_code>>

\* the lines main prints for a non-empty error list
FailureLines(p, m, errs) ==
    <<FailLine(p, m)>> \o [i \in 1..Len(errs) |-> Bullet(errs[i])]

\* the reporter failing the run when a warning was printed
ReportWarningFails ==
    /\ pc = "report"
    /\ ran' = Append(ran, "report")
    /\ IF errors # <<>> \/ stderr # <<>>
          THEN /\ stdout' = stdout \o FailureLines(path, mode, errors)
               /\ exit_code' = 1
          ELSE /\ stdout' = Append(stdout, OkLine(path, mode))
               /\ UNCHANGED exit_code
    /\ pc' = "done"
    /\ UNCHANGED <<argv, path, obj, mode, errors, stderr>>

\* the failure list or the success line
Report ==
    /\ pc = "report"
    /\ ran' = Append(ran, "report")
    /\ IF errors # <<>>
          THEN /\ stdout' = stdout \o FailureLines(path, mode, errors)
               /\ exit_code' = 1
          ELSE /\ stdout' = Append(stdout, OkLine(path, mode))
               /\ UNCHANGED exit_code
    /\ pc' = "done"
    /\ UNCHANGED <<argv, path, obj, mode, errors, stderr>>

Next ==
    \/ CheckUsage
    \/ CheckExists
    \/ LoadJson
    \/ CheckShape
    \/ DetectMode
    \/ Validate
    \/ Report

Spec == Init /\ [][Next]_vars

TypeOK ==
    /\ pc \in {"usage", "exists", "load", "shape", "detect", "validate",
               "report", "done"}
    /\ mode \in {"", "global", "thread"}
    /\ exit_code \in {0, 1}

(***************************************************************************)
(* Vocabulary of the properties.                                           *)
(***************************************************************************)
GlobalKeySet ==
    {"context_you_should_have_used", "thought_process_failures",
     "failure_patterns", "grok_strengths_and_limitations", "multi_llm_roles",
     "power_user_best_practices", "team_of_models_architecture",
     "reasoning_strategy_pack"}

ThreadKeySet ==
    {"thread_name", "primary_goal", "niche_or_topic", "tasks_for_grok",
     "hard_constraints", "output_requirements", "priority_rules"}

ThreadStringKeySet == {"thread_name", "primary_goal", "niche_or_topic"}

HasRun(stage) == \E i \in 1..Len(ran) : ran[i] = stage

PresentKeys == DOMAIN obj.fields

\* the required-key list of a mode, in declaration order
Declared(m) ==
    IF m = "thread" THEN THREAD_REQUIRED_KEYS ELSE GLOBAL_REQUIRED_KEYS

\* the Python type a required key's value must have
ExpectedType(m, k) ==
    IF m = "thread" /\ k \in ThreadStringKeySet THEN "str" ELSE "list"

RecognizedKeys == GlobalKeySet \cup ThreadKeySet

\* the "Missing required key" entry of each recognized key
MissingEntryTable ==
    [k \in RecognizedKeys |-> "Missing required key: " \o k]

MissingEntry(k) == MissingEntryTable[k]

\* the type-mismatch entries that name a key and report a type
MismatchTable ==
    [k \in RecognizedKeys |->
        [t \in PyTypes |->
            {"Key '" \o k \o "' must be a " \o w \o ", found " \o t :
                w \in {"list", "list (array)", "string"}}]]

MismatchEntriesOfType(k, t) == MismatchTable[k][t]

\* every type-mismatch entry that names a key
MismatchAnyTable ==
    [k \in RecognizedKeys |-> UNION {MismatchTable[k][t] : t \in PyTypes}]

MismatchEntries(k) == MismatchAnyTable[k]

\* every entry that names a key
EntriesTable ==
    [k \in RecognizedKeys |-> {MissingEntryTable[k]} \cup MismatchAnyTable[k]]

EntriesNaming(k) == EntriesTable[k]

CountIn(seq, S) == Cardinality({i \in 1..Len(seq) : seq[i] \in S})

\* the Python values a member may hold
PyValues == {Decode(j) : j \in MemberValues}

\* C1: detect_mode follows the decision table on has_global and has_thread,
\* warns exactly when the two agree, and gives the same answer whatever value
\* a present key holds.
C1_DetectModeTable ==
    HasRun("detect") =>
        LET has_global == PresentKeys \cap GlobalKeySet # {}
            has_thread == PresentKeys \cap ThreadKeySet # {}
        IN  /\ (mode = "thread") <=> (has_thread /\ ~has_global)
            /\ (mode = "global") <=> ~(has_thread /\ ~has_global)
            /\ (has_global = has_thread) <=> (Len(stderr) = 1)
            /\ (has_global # has_thread) <=> (stderr = <<>>)
            /\ (has_global /\ has_thread) => stderr = <<WarnBoth>>
            /\ (~has_global /\ ~has_thread) => stderr = <<WarnUnknown>>
            /\ \A k \in PresentKeys : \A v \in PyValues :
                  LET other == [obj EXCEPT !.fields[k] = v]
                  IN  /\ detect_mode(other).result = mode
                      /\ detect_mode(other).warnings = stderr

C1_Witness ==
    /\ HasRun("detect")
    /\ mode = "thread"
    /\ \E k \in PresentKeys \cap ThreadStringKeySet : obj.fields[k].type = "int"

\* C2: a required key of the detected mode that is absent from the document
\* gets exactly one "Missing required key" entry and no type-mismatch entry.
C2_MissingKeyReported ==
    HasRun("validate") =>
        \A k \in Range(Declared(mode)) :
            k \notin PresentKeys =>
                /\ CountIn(errors, {MissingEntry(k)}) = 1
                /\ CountIn(errors, MismatchEntries(k)) = 0

C2_Witness ==
    /\ HasRun("validate")
    /\ mode = "thread"
    /\ "primary_goal" \notin PresentKeys
    /\ "priority_rules" \notin PresentKeys
    /\ "thread_name" \in PresentKeys

\* C3: a required key of the detected mode that is present with a value of
\* the wrong type gets exactly one type-mismatch entry, which names the key
\* and the value's actual type, and no "Missing required key" entry.
C3_WrongTypeReported ==
    HasRun("validate") =>
        \A k \in Range(Declared(mode)) \cap PresentKeys :
            obj.fields[k].type # ExpectedType(mode, k) =>
                /\ CountIn(errors, MismatchEntries(k)) = 1
                /\ CountIn(errors,
                           MismatchEntriesOfType(k, obj.fields[k].type)) = 1
                /\ CountIn(errors, {MissingEntry(k)}) = 0

C3_Witness ==
    /\ HasRun("validate")
    /\ mode = "thread"
    /\ "thread_name" \in PresentKeys
    /\ obj.fields["thread_name"].type = "list"
    /\ "tasks_for_grok" \in PresentKeys
    /\ obj.fields["tasks_for_grok"].type = "bool"

\* the document holds exactly the required keys of mode m, each of the
\* expected type
ExactDocument(m) ==
    /\ obj.type = "dict"
    /\ PresentKeys = (IF m = "thread" THEN ThreadKeySet ELSE GlobalKeySet)
    /\ \A k \in PresentKeys : obj.fields[k].type = ExpectedType(m, k)

\* C4: a document that holds exactly the required keys of one schema, each of
\* the expected type, is detected as that schema without a warning, has an
\* empty error report, and ends with the success line and exit code 0.
C4_ExactDocumentSucceeds ==
    \A m \in {"global", "thread"} :
        ExactDocument(m) =>
            /\ HasRun("detect") => (mode = m /\ stderr = <<>>)
            /\ HasRun("validate") => errors = <<>>
            /\ pc = "done" =>
                  /\ exit_code = 0
                  /\ stderr = <<>>
                  /\ stdout = << "[OK] " \o path \o " is valid "
                                 \o (IF m = "thread" THEN "THREAD" ELSE "GLOBAL")
                                 \o " JSON." >>

C4_Witness ==
    /\ pc = "done"
    /\ ExactDocument("global")
    /\ \E k \in PresentKeys : obj.fields[k].items = <<"int", "NoneType">>

\* C5: a document with keys of both schemas is validated as "global": every
\* entry of its error report names a GLOBAL key and none names a THREAD key.
C5_BothSchemasValidatedAsGlobal ==
    (/\ obj.type = "dict"
     /\ PresentKeys \cap GlobalKeySet # {}
     /\ PresentKeys \cap ThreadKeySet # {}) =>
        /\ HasRun("detect") => mode = "global"
        /\ HasRun("validate") =>
              /\ \A i \in 1..Len(errors) :
                    \E k \in GlobalKeySet : errors[i] \in EntriesNaming(k)
              /\ \A k \in ThreadKeySet : CountIn(errors, EntriesNaming(k)) = 0

C5_Witness ==
    /\ HasRun("validate")
    /\ PresentKeys \cap GlobalKeySet # {}
    /\ "thread_name" \in PresentKeys
    /\ obj.fields["thread_name"].type = "int"
    /\ "primary_goal" \notin PresentKeys
    /\ errors # <<>>

\* C6: an object with none of the 15 recognized keys is validated as "global"
\* and its error report is the 8 "Missing required key" entries, one for each
\* GLOBAL key, so the run exits with code 1.
C6_UnrecognizedDocument ==
    (/\ obj.type = "dict"
     /\ PresentKeys \cap (GlobalKeySet \cup ThreadKeySet) = {}) =>
        /\ HasRun("detect") => mode = "global"
        /\ HasRun("validate") =>
              /\ Len(errors) = 8
              /\ \A k \in GlobalKeySet : CountIn(errors, {MissingEntry(k)}) = 1
        /\ pc = "done" => exit_code = 1

C6_Witness ==
    /\ pc = "done"
    /\ obj.type = "dict"
    /\ PresentKeys = {"notes"}

\* C7: warnings and errors go to standard error and only the success line goes
\* to standard output: nothing is on standard output unless the run exits
\* with code 0, and then it is the success line alone.
C7_OnlySuccessOnStdout ==
    stdout # <<>> =>
        /\ pc = "done"
        /\ exit_code = 0
        /\ stdout = <<OkLine(path, mode)>>

\* the stages of main in the order the program runs them
Pipeline ==
    <<"usage", "exists", "load", "shape", "detect", "validate", "report">>

\* C8: the stages run in pipeline order, and a usage, I/O, syntax or shape
\* error ends the run at once with exit code 1: no later stage runs, mode
\* detection is never applied to a non-object root, no mode warning is
\* printed and no success or failure line is printed.
C8_PipelineOrderAndAbort ==
    /\ Len(ran) <= Len(Pipeline)
    /\ \A i \in 1..Len(ran) : ran[i] = Pipeline[i]
    /\ Len(ran) >= 2 => Len(argv) = 2
    /\ HasRun("detect") => obj.type = "dict"
    /\ (pc = "done" /\ ~HasRun("report")) =>
          /\ Len(ran) <= 4
          /\ exit_code = 1
          /\ Len(stderr) = 1
          /\ stderr[1] \notin {WarnBoth, WarnUnknown}
          /\ stdout = <<>>
          /\ mode = ""
          /\ errors = <<>>
    /\ (HasRun("shape") /\ obj.type # "dict") => (pc = "done" /\ Len(ran) = 4)

C8_Witness ==
    /\ pc = "done"
    /\ ran = <<"usage", "exists", "load", "shape">>
    /\ obj.type = "list"

\* C9: the exit code is 0 or 1, and for a run that reaches the reporter it is
\* 0 exactly when the error report is empty, whether or not mode detection
\* printed a warning.
C9_ExitCodeFollowsReport ==
    /\ exit_code \in {0, 1}
    /\ (pc = "done" /\ HasRun("report")) =>
          /\ (exit_code = 0) <=> (errors = <<>>)
          /\ (exit_code = 1) <=> (errors # <<>>)

C9_Witness ==
    /\ pc = "done"
    /\ HasRun("report")
    /\ stderr = <<WarnBoth>>
    /\ exit_code = 0

\* the position of key k in the required-key list of mode m
DeclIndex(m, k) == CHOOSE i \in 1..Len(Declared(m)) : Declared(m)[i] = k

\* the required key of mode m that entry e names
KeysNamedBy(m, e) == {k \in Range(Declared(m)) : e \in EntriesNaming(k)}

\* C10: validation never stops early and the error report follows the
\* declaration order of the schema: every faulty required key has its entry,
\* each entry names one required key, entries of earlier-declared keys come
\* first (the three thread string fields before the four thread list fields),
\* so each key has at most one entry, and the reporter prints the entries in
\* that order.
C10_ReportInDeclarationOrder ==
    HasRun("validate") =>
        /\ \A k \in Range(Declared(mode)) :
              (k \notin PresentKeys \/ obj.fields[k].type # ExpectedType(mode, k))
                  => CountIn(errors, EntriesNaming(k)) = 1
        /\ \A i \in 1..Len(errors) :
              Cardinality(KeysNamedBy(mode, errors[i])) = 1
        /\ \A i \in 1..Len(errors) : \A j \in 1..Len(errors) :
              i < j =>
                 \A a \in KeysNamedBy(mode, errors[i]) :
                 \A b \in KeysNamedBy(mode, errors[j]) :
                    DeclIndex(mode, a) < DeclIndex(mode, b)
        /\ Len(errors) <= (IF mode = "thread" THEN 7 ELSE 8)
        /\ mode = "thread" =>
              \A i \in 1..Len(errors) : \A j \in 1..Len(errors) :
                 (/\ KeysNamedBy(mode, errors[j]) \subseteq ThreadStringKeySet
                  /\ ~(KeysNamedBy(mode, errors[i]) \subseteq ThreadStringKeySet))
                     => j < i
        /\ (pc = "done" /\ errors # <<>>) =>
              /\ Len(stdout) = Len(errors) + 1
              /\ \A i \in 1..Len(errors) : stdout[i + 1] = "  - " \o errors[i]

C10_Witness ==
    /\ pc = "done"
    /\ mode = "thread"
    /\ Len(errors) = 7
    /\ errors[1] = "Key 'thread_name' must be a string, found list"
    /\ errors[7] = "Key 'priority_rules' must be a list, found str"
====
